---- MODULE Spec2Model ----
(***************************************************************************)
(* The news scouting agent (src/scout_agent): the scouting driver main.py   *)
(* with its hourly scheduler, the analysis agent agent.py, and the          *)
(* evaluation driver evaluate.py with the judge evaluator.py.               *)
(*                                                                         *)
(* A model response is a sequence of tokens.  In an analysis response the   *)
(* tokens are "[", "]", a piece of prose "p", and whole JSON objects (one   *)
(* token per object, its separating comma included).  In a judge response   *)
(* they are "{", "}", prose "p" and the member list of an object.           *)
(* Timestamps (generated_at, file names) are not modelled.                  *)
(*                                                                         *)
(* Spec is one run of main.py, of evaluate.py on one report, or of          *)
(* evaluate_batch called directly.  SpecAllRecent is evaluate.py --all on   *)
(* a directory of reports.  SpecFeedback is the report evaluate_batch       *)
(* builds from a given list of evaluations, and the summary printed for it. *)
(***************************************************************************)
EXTENDS Integers, Sequences, FiniteSets, TLC

VARIABLES
    program,        \* what runs: "main" (main.py), "evaluate" (evaluate.py),
                    \* "batch" (a direct call of evaluate_batch), "all"
                    \* (evaluate.py --all) or "feedback" (the report built
                    \* by evaluate_batch from a given evaluations list)
    pc,             \* position of the running script
    rss_url,        \* main.py: feed url chosen at start-up
    description,    \* main.py: description chosen at start-up
    jobs,           \* schedule's job list
    clock,          \* loop iterations since the job was registered
    jobRuns,        \* number of times run_pending ran a due job
    exitCause,      \* what ended the scheduler loop ("" while it has not ended)
    invocations,    \* arguments of every run_scouting_task call so far
    entries,        \* feed.entries of the last fetch (titles)
    articles,       \* articles returned by the last fetch
    response,       \* the analysis model's answer in the last run
    modelCalls,     \* analysis model calls issued so far
    analysis,       \* outcome of analyze_articles in the last run
    report,         \* value returned by generate_scout_report (<<>> is None)
    reportFiles,    \* contents of the files under reports/
    console,        \* what the last handler printed
    batchArticles,  \* evaluate_batch: its articles argument (titles)
    batchAnalyses,  \* evaluate_batch: its analyses argument
    idx,            \* evaluate_batch: the pair the loop is at
    evaluations,    \* evaluate_batch: the evaluations list
    judgeCalls,     \* judge model calls issued so far
    judged,         \* the analyses a judge call was issued for, in call order
    failedResponse, \* the judge's answer on which evaluate_analysis raised
    batchExc,       \* exception that left evaluate_batch ("none": none)
    evalResult,     \* value returned by evaluate_batch (<<>>: nothing)
    evalFiles,      \* contents of the files under evaluations/
    mtimes,         \* modification time of each file under reports/
    count,          \* evaluate_all_recent_reports: its count argument
    reports,        \* evaluate_all_recent_reports: list_scout_reports()[:count]
                    \* (positions in reportFiles)
    reportIdx,      \* evaluate_all_recent_reports: the report the loop is at
    visited,        \* the reports evaluate_existing_report was called on,
                    \* in call order, each with the judge's answers and
                    \* what the call returned
    all_scores,     \* evaluate_all_recent_reports: the all_scores list
    stats           \* the aggregate statistics printed (<<>>: none)

mainVars == <<rss_url, description, jobs, clock, jobRuns, exitCause,
              invocations, entries, articles, response, modelCalls, analysis,
              report>>

evalVars == <<batchArticles, batchAnalyses, idx, evaluations, judgeCalls,
              judged, failedResponse, batchExc, evalResult, evalFiles>>

allVars == <<mtimes, count, reports, reportIdx, visited, all_scores, stats>>

vars == <<program, pc, mainVars, evalVars, allVars, reportFiles, console>>

----------------------------------------------------------------------------
(* Bounds of the model *)

MaxFeed == 3
MaxResp == 4
HourTicks == 2
MaxFindings == 3
MaxJudge == 4
MaxReports == 3
MaxBatch == 3

(* Program constants *)

max_articles == 10
ImportanceThreshold == 5
MinImportance == 1
MaxImportance == 10
LambdaArity == 0
MinOverall == 100
MaxOverall == 500
FeedbackCap == 5

----------------------------------------------------------------------------
(* Data *)

Titles == {"A", "B"}

\* JSON objects the analysis model may emit, one token each.
Objs == {"A8", "B3", "A11"}

AnalysisTokens == {"[", "]", "p"} \cup Objs

SeqsUpTo(S, n) == UNION {[1..k -> S] : k \in 0..n}

Feeds == SeqsUpTo(Titles, MaxFeed)

Texts == SeqsUpTo(AnalysisTokens, MaxResp)

\* What openai.chat.completions.create does: raises, or returns a content.
Responses ==
    {[raised |-> FALSE, content |-> t] : t \in Texts}
        \cup {[raised |-> TRUE, content |-> <<>>]}

NoResponse == [raised |-> FALSE, content |-> <<>>]

\* json.loads of one object token: the dict it denotes.
ObjDict(tok) ==
    CASE tok = "A8"  -> [original_title |-> "A", importance_score |-> 8]
      [] tok = "B3"  -> [original_title |-> "B", importance_score |-> 3]
      [] tok = "A11" -> [original_title |-> "A", importance_score |-> 11]

----------------------------------------------------------------------------
(* Strings: str.find, str.rfind, slicing (0-based, as in Python) *)

Find(text, tok) ==
    IF \E i \in 1..Len(text) : text[i] = tok
    THEN (CHOOSE i \in 1..Len(text) :
              text[i] = tok /\ \A j \in 1..(i-1) : text[j] # tok) - 1
    ELSE -1

RFind(text, tok) ==
    IF \E i \in 1..Len(text) : text[i] = tok
    THEN (CHOOSE i \in 1..Len(text) :
              text[i] = tok /\ \A j \in (i+1)..Len(text) : text[j] # tok) - 1
    ELSE -1

Slice(text, start, end) == SubSeq(text, start + 1, end)

----------------------------------------------------------------------------
(* json.loads on an analysis response *)

Depth(text, i) ==
    Cardinality({j \in 1..i : text[j] = "["})
        - Cardinality({j \in 1..i : text[j] = "]"})

IsJsonArray(text) ==
    /\ Len(text) >= 2
    /\ text[1] = "["
    /\ text[Len(text)] = "]"
    /\ \A i \in 1..Len(text) : text[i] # "p"
    /\ \A i \in 1..(Len(text) - 1) : Depth(text, i) >= 1
    /\ Depth(text, Len(text)) = 0

IsJsonObject(text) == Len(text) = 1 /\ text[1] \in Objs

\* json.loads(text) does not raise JSONDecodeError
JsonDecodes(text) == IsJsonArray(text) \/ IsJsonObject(text)

\* The members of the outermost array, in order; a nested array is kept as "[".
ArrayItems(text) ==
    LET at == SelectSeq([i \in 1..Len(text) |-> i],
                        LAMBDA i : /\ i > 1
                                   /\ i < Len(text)
                                   /\ Depth(text, i - 1) = 1)
    IN [k \in 1..Len(at) |-> text[at[k]]]

JsonLoads(text) ==
    IF IsJsonObject(text)
    THEN [kind |-> "dict", items |-> <<text[1]>>]
    ELSE [kind |-> "list", items |-> ArrayItems(text)]

----------------------------------------------------------------------------
(* tools.py *)

FetchNewsFromRss(feed_entries) ==
    IF Len(feed_entries) > max_articles
    THEN SubSeq(feed_entries, 1, max_articles)
    ELSE feed_entries

----------------------------------------------------------------------------
(* agent.py: analyze_articles *)

\* Mutant: no substring extraction after the direct parse fails
ParseAnalysis_NoFallback(text) ==
    IF JsonDecodes(text)
    THEN [ok |-> TRUE, data |-> JsonLoads(text)]
    ELSE [ok |-> FALSE, data |-> [kind |-> "list", items |-> <<>>]]

\* The two-stage parse: [ok, data]; ok = FALSE is the "return []" branch.
ParseAnalysis(text) ==
    IF JsonDecodes(text)
    THEN [ok |-> TRUE, data |-> JsonLoads(text)]
    ELSE LET start_idx == Find(text, "[")
             end_idx   == RFind(text, "]") + 1
         IN IF /\ start_idx >= 0
               /\ end_idx > start_idx
               /\ JsonDecodes(Slice(text, start_idx, end_idx))
            THEN [ok |-> TRUE,
                  data |-> JsonLoads(Slice(text, start_idx, end_idx))]
            ELSE [ok |-> FALSE, data |-> [kind |-> "list", items |-> <<>>]]

HasTitle(arts, title) == \E i \in 1..Len(arts) : arts[i] = title

\* Mutant: the le=10 bound is missing
ValidScore_NoUpperBound(score) == score >= MinImportance

\* Field(..., ge=1, le=10) of AnalysisResult.importance_score
ValidScore(score) == score >= MinImportance /\ score <= MaxImportance

\* Mutant: the loop ends at the first object that matches no article
RECURSIVE MatchItems_StopsAtUnmatched(_, _, _)
MatchItems_StopsAtUnmatched(arts, items, results) ==
    IF items = <<>>
    THEN [exc |-> "none", results |-> results]
    ELSE LET item == Head(items)
         IN IF item \notin Objs
            THEN [exc |-> "AttributeError", results |-> <<>>]
            ELSE IF ~(\E i \in 1..Len(arts) :
                        arts[i] = ObjDict(item).original_title)
            THEN [exc |-> "none", results |-> results]
            ELSE IF ~(/\ ObjDict(item).importance_score >= MinImportance
                      /\ ObjDict(item).importance_score <= MaxImportance)
            THEN [exc |-> "ValidationError", results |-> <<>>]
            ELSE MatchItems_StopsAtUnmatched(arts, Tail(items),
                                             Append(results, ObjDict(item)))

\* The loop over analysis_data: the results so far, or the first exception.
RECURSIVE MatchItems(_, _, _)
MatchItems(arts, items, results) ==
    IF items = <<>>
    THEN [exc |-> "none", results |-> results]
    ELSE LET item == Head(items)
         IN IF item \notin Objs
            THEN [exc |-> "AttributeError", results |-> <<>>]
            ELSE IF ~HasTitle(arts, ObjDict(item).original_title)
            THEN MatchItems(arts, Tail(items), results)
            ELSE IF ~ValidScore(ObjDict(item).importance_score)
            THEN [exc |-> "ValidationError", results |-> <<>>]
            ELSE MatchItems(arts, Tail(items), Append(results, ObjDict(item)))

\* Mutant: a total parse failure is raised instead of returning []
AnalyzeArticles_RaisesOnParseFailure(arts, resp) ==
    IF resp.raised
    THEN [exc |-> "APIError", parsed |-> FALSE, results |-> <<>>]
    ELSE LET p == ParseAnalysis(resp.content)
         IN IF ~p.ok
            THEN [exc |-> "ValueError", parsed |-> FALSE, results |-> <<>>]
            ELSE IF p.data.kind = "dict"
            THEN [exc |-> "AttributeError", parsed |-> TRUE, results |-> <<>>]
            ELSE LET m == MatchItems(arts, p.data.items, <<>>)
                 IN [exc |-> m.exc, parsed |-> TRUE, results |-> m.results]

\* analyze_articles(articles) when the model answers resp:
\* exc is the exception that leaves the function ("none": it returns results).
AnalyzeArticles(arts, resp) ==
    IF resp.raised
    THEN [exc |-> "APIError", parsed |-> FALSE, results |-> <<>>]
    ELSE LET p == ParseAnalysis(resp.content)
         IN IF ~p.ok
            THEN [exc |-> "none", parsed |-> FALSE, results |-> <<>>]
            ELSE IF p.data.kind = "dict"
            THEN [exc |-> "AttributeError", parsed |-> TRUE, results |-> <<>>]
            ELSE LET m == MatchItems(arts, p.data.items, <<>>)
                 IN [exc |-> m.exc, parsed |-> TRUE, results |-> m.results]

NoAnalysis == [exc |-> "none", parsed |-> FALSE, results |-> <<>>]

----------------------------------------------------------------------------
(* agent.py: generate_scout_report *)

\* Mutant: the defensive filter keeps every valid score
Important_AnyScore(r) == r.importance_score >= MinImportance

Important(r) == r.importance_score >= ImportanceThreshold

\* Mutant: the "if not articles" check is missing
GenerateScoutReport_NoEmptyCheck(feed_entries, resp) ==
    LET arts == FetchNewsFromRss(feed_entries)
        a    == AnalyzeArticles(arts, resp)
    IN IF a.exc # "none"
       THEN [report |-> <<>>, calls |-> 1, analysis |-> a,
             printed |-> <<"Error generating scout report">>]
       ELSE [report |->
                <<[analyzed_articles |-> Len(arts),
                   important_findings |-> SelectSeq(a.results, Important)]>>,
             calls |-> 1, analysis |-> a,
             printed |-> IF ~resp.raised /\ ~a.parsed
                         THEN <<"Error parsing AI response">>
                         ELSE <<>>]

\* [report, calls, printed]: report is <<>> for None, else <<the ScoutReport>>.
GenerateScoutReport(feed_entries, resp) ==
    LET arts == FetchNewsFromRss(feed_entries)
    IN IF arts = <<>>
       THEN [report |-> <<>>, calls |-> 0, analysis |-> NoAnalysis,
             printed |-> <<"Error generating scout report">>]
       ELSE LET a == AnalyzeArticles(arts, resp)
                parseMsg == IF ~resp.raised /\ ~a.parsed
                            THEN <<"Error parsing AI response">>
                            ELSE <<>>
            IN IF a.exc # "none"
               THEN [report |-> <<>>, calls |-> 1, analysis |-> a,
                     printed |-> <<"Error generating scout report">>]
               ELSE [report |->
                        <<[analyzed_articles |-> Len(arts),
                           important_findings |->
                               SelectSeq(a.results, Important)]>>,
                     calls |-> 1, analysis |-> a,
                     printed |-> parseMsg]

----------------------------------------------------------------------------
(* evaluator.py: evaluate_analysis *)

\* Member lists the judge model may emit, one token each; scores are in
\* hundredths (420 is 4.20).
JudgeBodies == {"E42", "E60"}

\* Every member list EvalDict knows ("E30" is drawn by evaluate.py --all only)
KnownBodies == JudgeBodies \cup {"E30"}

JudgeTokens == {"{", "}", "p"} \cup JudgeBodies

JudgeTexts == SeqsUpTo(JudgeTokens, MaxJudge)

JudgeResponses ==
    {[raised |-> FALSE, content |-> t] : t \in JudgeTexts}
        \cup {[raised |-> TRUE, content |-> <<>>]}

EvalDict(tok) ==
    CASE tok = "E42" -> [overall_score |-> 420, strengths |-> <<"s1", "s2">>,
                         weaknesses |-> <<"w1">>]
      [] tok = "E30" -> [overall_score |-> 300, strengths |-> <<"s3">>,
                         weaknesses |-> <<"w1", "w3">>]
      [] tok = "E60" -> [overall_score |-> 600, strengths |-> <<"s1">>,
                         weaknesses |-> <<"w2">>]

NoEvaluation == [overall_score |-> 0, strengths |-> <<>>, weaknesses |-> <<>>]

\* json.loads(text) does not raise on a judge response: "{" "}" or
\* "{" members "}"
IsJudgeJson(text) ==
    \/ text = <<"{", "}">>
    \/ /\ Len(text) = 3
       /\ text[1] = "{"
       /\ text[2] \in KnownBodies
       /\ text[3] = "}"

\* ArticleEvaluation(**eval_data): every field is required and
\* overall_score has ge=1, le=5.
ArticleEvaluation(text) ==
    IF Len(text) = 2
    THEN [exc |-> "ValidationError", evaluation |-> NoEvaluation]
    ELSE IF \/ EvalDict(text[2]).overall_score < MinOverall
            \/ EvalDict(text[2]).overall_score > MaxOverall
    THEN [exc |-> "ValidationError", evaluation |-> NoEvaluation]
    ELSE [exc |-> "none", evaluation |-> EvalDict(text[2])]

\* evaluate_analysis when the judge answers resp: the exception that leaves
\* it, or the ArticleEvaluation it returns.
EvaluateAnalysis(resp) ==
    IF resp.raised
    THEN [exc |-> "APIError", evaluation |-> NoEvaluation]
    ELSE LET text      == resp.content
             start_idx == Find(text, "{")
             end_idx   == RFind(text, "}") + 1
         IN IF IsJudgeJson(text)
            THEN ArticleEvaluation(text)
            ELSE IF start_idx >= 0 /\ end_idx > start_idx
            THEN IF IsJudgeJson(Slice(text, start_idx, end_idx))
                 THEN ArticleEvaluation(Slice(text, start_idx, end_idx))
                 ELSE [exc |-> "JSONDecodeError", evaluation |-> NoEvaluation]
            ELSE [exc |-> "ValueError: Could not extract JSON",
                  evaluation |-> NoEvaluation]

----------------------------------------------------------------------------
(* evaluator.py: evaluate_batch and _generate_overall_feedback *)

RECURSIVE SumScores(_)
SumScores(evals) ==
    IF evals = <<>> THEN 0
    ELSE Head(evals).overall_score + SumScores(Tail(evals))

RECURSIVE Concat(_, _)
Concat(evals, field) ==
    IF evals = <<>> THEN <<>>
    ELSE Head(evals)[field] \o Concat(Tail(evals), field)

FirstN(seq, n) == SubSeq(seq, 1, IF Len(seq) < n THEN Len(seq) ELSE n)

Range(seq) == {seq[i] : i \in 1..Len(seq)}

\* Mutant: the average is cut to two decimals, not rounded
Round2_Truncates(total, n) == total \div n

\* round(total / n, 2) in hundredths, a tie going to the even hundredth
Round2(total, n) ==
    LET q == total \div n
        r == total % n
    IN IF 2 * r > n THEN q + 1
       ELSE IF 2 * r < n THEN q
       ELSE IF q % 2 = 0 THEN q ELSE q + 1

\* Mutant: the lower bounds of the bands are exclusive
Performance_ExclusiveBounds(total, n) ==
    IF n = 0 THEN "needs improvement"
    ELSE IF total > 450 * n THEN "excellent"
    ELSE IF total > 400 * n THEN "very good"
    ELSE IF total > 350 * n THEN "good"
    ELSE IF total > 300 * n THEN "satisfactory"
    ELSE "needs improvement"

\* The values round(total / n, 2) can take.  When the quotient lies midway
\* between two hundredths Python rounds the binary value of the float,
\* which lies just above or just below the midpoint: either hundredth.
RoundedMeans(total, n) ==
    IF n = 0 THEN {0}
    ELSE IF 2 * (total % n) = n THEN {total \div n, total \div n + 1}
    ELSE {Round2(total, n)}

\* The band of avg_score = total / n (0 when n = 0)
Performance(total, n) ==
    IF n = 0 THEN "needs improvement"
    ELSE IF total >= 450 * n THEN "excellent"
    ELSE IF total >= 400 * n THEN "very good"
    ELSE IF total >= 350 * n THEN "good"
    ELSE IF total >= 300 * n THEN "satisfactory"
    ELSE "needs improvement"

GenerateOverallFeedback(evals, total, n) ==
    [performance |-> Performance(total, n),
     strengths   |-> Range(FirstN(Concat(evals, "strengths"), FeedbackCap)),
     weaknesses  |-> Range(FirstN(Concat(evals, "weaknesses"), FeedbackCap))]

\* Lines 144-154: the EvaluationReport built once the loop is over.
EvaluationReport(arts, evals) ==
    LET total == SumScores(evals)
        n     == Len(evals)
    IN [total_articles   |-> Len(arts),
        average_score    |-> IF n = 0 THEN 0 ELSE Round2(total, n),
        evaluations      |-> evals,
        overall_feedback |-> GenerateOverallFeedback(evals, total, n)]

\* Mutant: the guard is missing
LengthsMatch_Always(arts, analyses) == TRUE

\* Line 133: the guard at the head of evaluate_batch
LengthsMatch(arts, analyses) == Len(arts) = Len(analyses)

\* Line 139: the number of pairs zip(articles, analyses) yields
ZipLen(arts, analyses) ==
    IF Len(arts) < Len(analyses) THEN Len(arts) ELSE Len(analyses)

----------------------------------------------------------------------------
(* Files under reports/ *)

\* report.model_dump_json() as read back by load_scout_report
FileOf(r) ==
    [valid |-> TRUE, analyzed_articles |-> r.analyzed_articles,
     important_findings |-> r.important_findings]

\* A file json.load or ScoutReport(**report_data) rejects
CorruptFile ==
    [valid |-> FALSE, analyzed_articles |-> 0, important_findings |-> <<>>]

\* Findings of earlier runs
StoredFindings ==
    {[original_title |-> "A", importance_score |-> 8],
     [original_title |-> "B", importance_score |-> 5]}

StoredFiles ==
    {CorruptFile} \cup
    {[valid |-> TRUE, analyzed_articles |-> MaxFeed, important_findings |-> f] :
        f \in SeqsUpTo(StoredFindings, MaxFindings)}

----------------------------------------------------------------------------
(* main.py *)

\* Choices "2" and "3" both build a search url from what the user types;
\* one category stands for both.
Configs ==
    {[choice |-> "1", rss_url |-> "rss?top", description |-> "top stories"],
     [choice |-> "2", rss_url |-> "rss/search?q=world",
      description |-> "Category: world"]}

InitMain ==
    /\ rss_url = ""
    /\ description = ""
    /\ jobs = <<>>
    /\ clock = 0
    /\ jobRuns = 0
    /\ exitCause = ""
    /\ invocations = <<>>
    /\ entries = <<>>
    /\ articles = <<>>
    /\ response = NoResponse
    /\ modelCalls = 0
    /\ analysis = NoAnalysis
    /\ report = <<>>

InitEval ==
    /\ batchArticles = <<>>
    /\ batchAnalyses = <<>>
    /\ idx = 0
    /\ evaluations = <<>>
    /\ judgeCalls = 0
    /\ judged = <<>>
    /\ failedResponse = NoResponse
    /\ batchExc = "none"
    /\ evalResult = <<>>
    /\ evalFiles = <<>>

InitAll ==
    /\ mtimes = <<>>
    /\ count = 0
    /\ reports = <<>>
    /\ reportIdx = 0
    /\ visited = <<>>
    /\ all_scores = <<>>
    /\ stats = <<>>

\* main.py starts at its menu; evaluate.py starts with one report file on
\* disk; a direct call of evaluate_batch starts at the call.
Init ==
    /\ InitMain
    /\ InitEval
    /\ InitAll
    /\ console = <<>>
    /\ \/ program = "main" /\ pc = "menu" /\ reportFiles = <<>>
       \/ program = "evaluate" /\ pc = "start"
            /\ reportFiles \in {<<f>> : f \in StoredFiles}
       \/ program = "batch" /\ pc = "call" /\ reportFiles = <<>>

\* get_user_choice and the branch on it (choice "4" exits)
Menu ==
    /\ program = "main"
    /\ pc = "menu"
    /\ \/ \E c \in Configs :
            /\ rss_url' = c.rss_url
            /\ description' = c.description
            /\ pc' = "initial"
            /\ console' = <<>>
       \/ /\ pc' = "exited"
          /\ console' = <<"Exiting...">>
          /\ UNCHANGED <<rss_url, description>>
    /\ UNCHANGED <<program, jobs, clock, jobRuns, exitCause, invocations,
                   entries, articles, response, modelCalls, analysis, report,
                   reportFiles, evalVars, allVars>>

\* run_scouting_task(url, desc) on a feed with feed_entries, the model
\* answering resp.  A None report makes report.analyzed_articles raise
\* AttributeError, which the except clause prints.
RunScoutingTask(url, desc, feed_entries, resp) ==
    LET g == GenerateScoutReport(feed_entries, resp)
    IN /\ invocations' = Append(invocations,
                                [rss_url |-> url, description |-> desc])
       /\ entries' = feed_entries
       /\ articles' = FetchNewsFromRss(feed_entries)
       /\ response' = IF g.calls = 0 THEN NoResponse ELSE resp
       /\ modelCalls' = modelCalls + g.calls
       /\ analysis' = g.analysis
       /\ report' = g.report
       /\ IF g.report = <<>>
          THEN /\ reportFiles' = reportFiles
               /\ console' = <<"Starting news scouting task">> \o g.printed
                                \o <<"Error during scouting task">>
          ELSE /\ reportFiles' = Append(reportFiles, FileOf(g.report[1]))
               /\ console' = <<"Starting news scouting task">> \o g.printed
                                \o <<"Analyzed", "Found", "Report saved">>

\* main.py line 120: the run at start-up
InitialRun ==
    /\ program = "main"
    /\ pc = "initial"
    /\ \E feed_entries \in Feeds, resp \in Responses :
           RunScoutingTask(rss_url, description, feed_entries, resp)
    /\ pc' = "register"
    /\ UNCHANGED <<program, rss_url, description, jobs, clock, jobRuns,
                   exitCause, evalVars, allVars>>

\* schedule.every().hour.do(lambda: run_scouting_task, rss_url, description):
\* the job is partial(<lambda>, rss_url, description), due one hour from now.
\* The locals of the finished run are gone by now.
Register ==
    /\ program = "main"
    /\ pc = "register"
    /\ jobs' = Append(jobs, [func |-> "lambda", arity |-> LambdaArity,
                             args |-> <<rss_url, description>>,
                             next_run |-> clock + HourTicks])
    /\ pc' = "loop"
    /\ console' = <<"News scouting agent started">>
    /\ entries' = <<>>
    /\ articles' = <<>>
    /\ response' = NoResponse
    /\ analysis' = NoAnalysis
    /\ report' = <<>>
    /\ UNCHANGED <<program, rss_url, description, clock, jobRuns, exitCause,
                   invocations, modelCalls, reportFiles, evalVars, allVars>>

\* Calling the job: the lambda takes LambdaArity parameters and is given
\* job.args, so Python raises TypeError unless the counts agree; its body
\* only names run_scouting_task and returns it, it calls nothing.
CallJob(job) ==
    IF Len(job.args) # job.arity
    THEN [exc |-> "TypeError", invoked |-> FALSE]
    ELSE [exc |-> "none", invoked |-> FALSE]

\* One iteration of the loop with a due job: schedule.run_pending() runs it.
\* An exception of the job leaves run_pending and the while loop; only
\* KeyboardInterrupt is caught there.
RunPending ==
    /\ program = "main"
    /\ pc = "loop"
    /\ jobs # <<>>
    /\ clock >= jobs[1].next_run
    /\ jobRuns' = jobRuns + 1
    /\ LET r == CallJob(jobs[1])
       IN /\ IF r.invoked
             THEN \E feed_entries \in Feeds, resp \in Responses :
                      RunScoutingTask(jobs[1].args[1], jobs[1].args[2],
                                      feed_entries, resp)
             ELSE UNCHANGED <<invocations, entries, articles, response,
                              modelCalls, analysis, report, reportFiles,
                              console>>
          /\ IF r.exc # "none"
             THEN /\ pc' = "crashed"
                  /\ exitCause' = r.exc
                  /\ UNCHANGED <<jobs, clock>>
             ELSE /\ pc' = "loop"
                  /\ exitCause' = exitCause
                  /\ jobs' = <<[jobs[1] EXCEPT !.next_run = HourTicks]>>
                  /\ clock' = 0
    /\ UNCHANGED <<program, rss_url, description, evalVars, allVars>>

\* One iteration with nothing due: run_pending does nothing, time.sleep(1).
Sleep ==
    /\ program = "main"
    /\ pc = "loop"
    /\ jobs # <<>>
    /\ clock < jobs[1].next_run
    /\ clock' = clock + 1
    /\ UNCHANGED <<program, pc, rss_url, description, jobs, jobRuns,
                   exitCause, invocations, entries, articles, response,
                   modelCalls, analysis, report, reportFiles, console,
                   evalVars, allVars>>

\* Ctrl+C while the loop runs
KeyboardInterrupt ==
    /\ program = "main"
    /\ pc = "loop"
    /\ pc' = "stopped"
    /\ exitCause' = "KeyboardInterrupt"
    /\ console' = <<"News scouting agent stopped.">>
    /\ UNCHANGED <<program, rss_url, description, jobs, clock, jobRuns,
                   invocations, entries, articles, response, modelCalls,
                   analysis, report, reportFiles, evalVars, allVars>>

----------------------------------------------------------------------------
(* evaluate.py: evaluate_existing_report, and evaluator.py: evaluate_batch *)

\* Mutant: the except clause falls through to the save
BatchRaised_StillSaves(exc, resp) ==
    /\ batchExc' = exc
    /\ failedResponse' = resp
    /\ evalResult' = <<>>
    /\ pc' = "done"
    /\ console' = IF program = "evaluate"
                  THEN <<"Error during evaluation">>
                  ELSE <<>>
    /\ evalFiles' = Append(evalFiles,
                           EvaluationReport(batchArticles, evaluations))

\* What follows evaluate_batch once an exception exc has left it: the
\* except clause of evaluate_existing_report prints it and returns None; a
\* direct caller just gets the exception.
BatchRaised(exc, resp) ==
    /\ batchExc' = exc
    /\ failedResponse' = resp
    /\ evalResult' = <<>>
    /\ pc' = "done"
    /\ console' = IF program = "evaluate"
                  THEN <<"Error during evaluation">>
                  ELSE <<>>
    /\ UNCHANGED evalFiles

\* What follows the loop of evaluate_batch: the report is returned, and
\* evaluate_existing_report prints it, saves it under evaluations/ and
\* prints the summary.
BatchReturned(arts, evals) ==
    /\ batchExc' = "none"
    /\ evalResult' = <<EvaluationReport(arts, evals)>>
    /\ pc' = "done"
    /\ IF program = "evaluate"
       THEN /\ evalFiles' = Append(evalFiles, EvaluationReport(arts, evals))
            /\ console' = <<"EVALUATION REPORT", "Evaluation report saved",
                            "EVALUATION SUMMARY">>
       ELSE /\ evalFiles' = evalFiles
            /\ console' = <<>>

\* evaluate_batch(arts, analyses) up to its first judge call
EnterBatch(arts, analyses) ==
    /\ batchArticles' = arts
    /\ batchAnalyses' = analyses
    /\ evaluations' = <<>>
    /\ UNCHANGED <<judgeCalls, judged>>
    /\ IF ~LengthsMatch(arts, analyses)
       THEN /\ BatchRaised("ValueError: Number of articles must match",
                           NoResponse)
            /\ idx' = 0
       ELSE IF ZipLen(arts, analyses) = 0
       THEN /\ BatchReturned(arts, <<>>)
            /\ idx' = 0
            /\ UNCHANGED failedResponse
       ELSE /\ pc' = "batch"
            /\ idx' = 1
            /\ UNCHANGED failedResponse
            /\ batchExc' = "none"
            /\ evalResult' = <<>>
            /\ console' = <<>>
            /\ UNCHANGED evalFiles

\* evaluate_existing_report(report_filepath) up to the first judge call:
\* load the report, rebuild an article per finding, enter evaluate_batch.
EvaluateExistingReport ==
    /\ program = "evaluate"
    /\ pc = "start"
    /\ \E i \in 1..Len(reportFiles) :
         LET f == reportFiles[i]
         IN IF ~f.valid
            THEN /\ pc' = "done"
                 /\ console' = <<"Error loading report">>
                 /\ UNCHANGED evalVars
            ELSE IF f.important_findings = <<>>
            THEN /\ pc' = "done"
                 /\ console' = <<"No important findings to evaluate">>
                 /\ UNCHANGED evalVars
            ELSE EnterBatch(
                     [k \in 1..Len(f.important_findings) |->
                          f.important_findings[k].original_title],
                     f.important_findings)
    /\ UNCHANGED <<program, mainVars, allVars, reportFiles>>

\* evaluate_batch called directly with any two lists (the articles only
\* fill the judge's prompt, so one title stands for all)
CallEvaluateBatch ==
    /\ program = "batch"
    /\ pc = "call"
    /\ \E arts \in SeqsUpTo({"A"}, MaxFindings),
          analyses \in SeqsUpTo({[original_title |-> "A",
                                   importance_score |-> 8]}, MaxFindings) :
           EnterBatch(arts, analyses)
    /\ UNCHANGED <<program, mainVars, allVars, reportFiles>>

\* Mutant: a failed pair is skipped and the loop goes on
JudgeCall_SkipsFailedPair ==
    /\ pc = "batch"
    /\ idx <= ZipLen(batchArticles, batchAnalyses)
    /\ \E resp \in JudgeResponses :
         LET e   == EvaluateAnalysis(resp)
             evs == IF e.exc = "none"
                    THEN Append(evaluations, e.evaluation)
                    ELSE evaluations
         IN /\ judgeCalls' = judgeCalls + 1
            /\ judged' = Append(judged, batchAnalyses[idx])
            /\ evaluations' = evs
            /\ idx' = idx + 1
            /\ failedResponse' = IF e.exc = "none" THEN failedResponse ELSE resp
            /\ IF idx = ZipLen(batchArticles, batchAnalyses)
               THEN BatchReturned(batchArticles, evs)
               ELSE /\ pc' = "batch"
                    /\ UNCHANGED <<batchExc, evalResult, evalFiles, console>>
    /\ UNCHANGED <<program, mainVars, allVars, reportFiles, batchArticles,
                   batchAnalyses>>

\* One round of the loop of evaluate_batch: evaluate_analysis on pair idx,
\* the judge answering resp.  An exception leaves the loop and the function;
\* after the last pair the report is built and returned.
JudgeCall ==
    /\ pc = "batch"
    /\ idx <= ZipLen(batchArticles, batchAnalyses)
    /\ \E resp \in JudgeResponses :
         LET e == EvaluateAnalysis(resp)
         IN /\ judgeCalls' = judgeCalls + 1
            /\ judged' = Append(judged, batchAnalyses[idx])
            /\ IF e.exc # "none"
               THEN /\ BatchRaised(e.exc, resp)
                    /\ UNCHANGED <<idx, evaluations>>
               ELSE /\ evaluations' = Append(evaluations, e.evaluation)
                    /\ UNCHANGED failedResponse
                    /\ idx' = idx + 1
                    /\ IF idx = ZipLen(batchArticles, batchAnalyses)
                       THEN BatchReturned(batchArticles,
                                          Append(evaluations, e.evaluation))
                       ELSE /\ pc' = "batch"
                            /\ UNCHANGED <<batchExc, evalResult, evalFiles,
                                           console>>
    /\ UNCHANGED <<program, mainVars, allVars, reportFiles, batchArticles,
                   batchAnalyses>>

----------------------------------------------------------------------------
(* evaluate.py: list_scout_reports and evaluate_all_recent_reports *)

\* The modification times of n files written at different moments, in the
\* order os.listdir gives the files
ModifiedTimes(n) ==
    {f \in [1..n -> 1..n] : \A i, j \in 1..n : i # j => f[i] # f[j]}

\* reports.sort(key=modified, reverse=True) over the positions in left:
\* latest first, equal times in directory order
RECURSIVE SortByModified(_, _)
SortByModified(times, left) ==
    IF left = {} THEN <<>>
    ELSE LET p == CHOOSE q \in left :
                      \A r \in left :
                          \/ times[q] > times[r]
                          \/ times[q] = times[r] /\ q <= r
         IN <<p>> \o SortByModified(times, left \ {p})

ListScoutReports(files, times) == SortByModified(times, 1..Len(files))

\* The loop of evaluate_batch over the judge's answers resps, in call order
RECURSIVE BatchLoop(_, _)
BatchLoop(resps, evals) ==
    IF resps = <<>>
    THEN [exc |-> "none", evaluations |-> evals]
    ELSE LET e == EvaluateAnalysis(Head(resps))
         IN IF e.exc # "none"
            THEN [exc |-> e.exc, evaluations |-> evals]
            ELSE BatchLoop(Tail(resps), Append(evals, e.evaluation))

\* evaluate_batch(arts, analyses) as a whole, the judge answering resps
EvaluateBatch(arts, analyses, resps) ==
    IF ~LengthsMatch(arts, analyses)
    THEN [exc |-> "ValueError: Number of articles must match",
          report |-> <<>>]
    ELSE LET r == BatchLoop(FirstN(resps, ZipLen(arts, analyses)), <<>>)
         IN IF r.exc # "none"
            THEN [exc |-> r.exc, report |-> <<>>]
            ELSE [exc |-> "none",
                  report |-> <<EvaluationReport(arts, r.evaluations)>>]

\* What evaluate_existing_report returns on file f, the judge answering
\* resps: <<>> is None, <<r>> the EvaluationReport r
EvaluateExistingReportOn(f, resps) ==
    IF ~f.valid THEN <<>>
    ELSE IF f.important_findings = <<>> THEN <<>>
    ELSE EvaluateBatch([k \in 1..Len(f.important_findings) |->
                            f.important_findings[k].original_title],
                       f.important_findings, resps).report

\* Files under reports/ when evaluate.py --all runs: unreadable, without
\* findings, with one finding
RecentFiles ==
    {CorruptFile} \cup
    {[valid |-> TRUE, analyzed_articles |-> MaxFeed, important_findings |-> f] :
        f \in {<<>>, <<[original_title |-> "A", importance_score |-> 8]>>}}

\* The count argument (the default is 5)
Counts == 0..MaxReports

\* Judge answers during evaluate.py --all: one that parses directly, one
\* wrapped in prose, one that cannot be parsed
RecentJudgeResponses ==
    {[raised |-> FALSE, content |-> <<"{", "E42", "}">>],
     [raised |-> FALSE, content |-> <<"p", "{", "E30", "}">>],
     [raised |-> FALSE, content |-> <<"p">>]}

\* max(all_scores, key=score) and min(...): the first entry with that score
BestScore(scores) ==
    scores[CHOOSE i \in 1..Len(scores) :
               /\ \A j \in 1..Len(scores) : scores[j].score <= scores[i].score
               /\ \A j \in 1..(i-1) : scores[j].score < scores[i].score]

WorstScore(scores) ==
    scores[CHOOSE i \in 1..Len(scores) :
               /\ \A j \in 1..Len(scores) : scores[j].score >= scores[i].score
               /\ \A j \in 1..(i-1) : scores[j].score > scores[i].score]

RECURSIVE SumOfScores(_)
SumOfScores(scores) ==
    IF scores = <<>> THEN 0
    ELSE Head(scores).score + SumOfScores(Tail(scores))

\* Mutant: the latest score is compared with the oldest one
Trend_LatestAgainstOldest(scores) ==
    IF Len(scores) < 2 THEN "none"
    ELSE IF scores[1].score > scores[Len(scores)].score THEN "Improving"
    ELSE IF scores[1].score < scores[Len(scores)].score THEN "Declining"
    ELSE "Stable"

\* Lines 214-223: all_scores[:2] against all_scores[-2:] (both sums are
\* halved, which does not change the comparison)
Trend(scores) ==
    IF Len(scores) < 2 THEN "none"
    ELSE LET recent == SumOfScores(FirstN(scores, 2))
             older  == SumOfScores(SubSeq(scores, Len(scores) - 1,
                                          Len(scores)))
         IN IF recent > older THEN "Improving"
            ELSE IF recent < older THEN "Declining"
            ELSE "Stable"

InitAllRecent ==
    /\ InitMain
    /\ InitEval
    /\ console = <<>>
    /\ program = "all"
    /\ pc = "start"
    /\ reportFiles \in SeqsUpTo(RecentFiles, MaxReports)
    /\ mtimes \in ModifiedTimes(Len(reportFiles))
    /\ count \in Counts
    /\ reports = <<>>
    /\ reportIdx = 0
    /\ visited = <<>>
    /\ all_scores = <<>>
    /\ stats = <<>>

\* evaluate_all_recent_reports(count) up to its loop
ListRecentReports ==
    /\ program = "all"
    /\ pc = "start"
    /\ reports' = FirstN(ListScoutReports(reportFiles, mtimes), count)
    /\ IF reports' = <<>>
       THEN /\ pc' = "done"
            /\ reportIdx' = 0
            /\ console' = <<"No scout reports found">>
       ELSE /\ pc' = "loop"
            /\ reportIdx' = 1
            /\ console' = <<"Evaluating most recent reports">>
    /\ UNCHANGED <<program, mainVars, evalVars, reportFiles, mtimes, count,
                   visited, all_scores, stats>>

\* Mutant: a report that cannot be evaluated ends the loop
EvaluateNextReport_StopsOnFailure ==
    /\ program = "all"
    /\ pc = "loop"
    /\ reportIdx <= Len(reports)
    /\ LET f == reportFiles[reports[reportIdx]]
       IN \E resps \in [1..Len(f.important_findings) -> RecentJudgeResponses] :
            LET eval_report == EvaluateExistingReportOn(f, resps)
            IN /\ visited' = Append(visited, [file |-> reports[reportIdx],
                                              answers |-> resps,
                                              result |-> eval_report])
               /\ IF eval_report # <<>>
                  THEN /\ all_scores' =
                            Append(all_scores,
                                   [filename |-> reports[reportIdx],
                                    score |-> eval_report[1].average_score])
                       /\ evalFiles' = Append(evalFiles, eval_report[1])
                       /\ reportIdx' = reportIdx + 1
                  ELSE /\ UNCHANGED <<all_scores, evalFiles>>
                       /\ reportIdx' = Len(reports) + 1
    /\ console' = <<"Evaluating">>
    /\ UNCHANGED <<program, pc, mainVars, reportFiles, mtimes, count, reports,
                   stats, batchArticles, batchAnalyses, idx, evaluations,
                   judgeCalls, judged, failedResponse, batchExc, evalResult>>

\* One round of the loop of evaluate_all_recent_reports:
\* evaluate_existing_report on the next report, which returns None when the
\* file cannot be loaded, has no findings, or evaluate_batch raises.
EvaluateNextReport ==
    /\ program = "all"
    /\ pc = "loop"
    /\ reportIdx <= Len(reports)
    /\ LET f == reportFiles[reports[reportIdx]]
       IN \E resps \in [1..Len(f.important_findings) -> RecentJudgeResponses] :
            LET eval_report == EvaluateExistingReportOn(f, resps)
            IN /\ visited' = Append(visited, [file |-> reports[reportIdx],
                                              answers |-> resps,
                                              result |-> eval_report])
               /\ IF eval_report # <<>>
                  THEN /\ all_scores' =
                            Append(all_scores,
                                   [filename |-> reports[reportIdx],
                                    score |-> eval_report[1].average_score])
                       /\ evalFiles' = Append(evalFiles, eval_report[1])
                  ELSE UNCHANGED <<all_scores, evalFiles>>
    /\ reportIdx' = reportIdx + 1
    /\ console' = <<"Evaluating">>
    /\ UNCHANGED <<program, pc, mainVars, reportFiles, mtimes, count, reports,
                   stats, batchArticles, batchAnalyses, idx, evaluations,
                   judgeCalls, judged, failedResponse, batchExc, evalResult>>

\* Lines 201-223: the statistics printed once the loop is over
AggregateStatistics ==
    /\ program = "all"
    /\ pc = "loop"
    /\ reportIdx > Len(reports)
    /\ pc' = "done"
    /\ IF all_scores # <<>>
       THEN /\ stats' = <<[evaluated |-> Len(all_scores),
                           total     |-> SumOfScores(all_scores),
                           best      |-> BestScore(all_scores),
                           worst     |-> WorstScore(all_scores),
                           trend     |-> Trend(all_scores)]>>
            /\ console' = <<"AGGREGATE STATISTICS">>
       ELSE /\ stats' = <<>>
            /\ console' = <<>>
    /\ UNCHANGED <<program, mainVars, evalVars, reportFiles, mtimes, count,
                   reports, reportIdx, visited, all_scores>>

NextAllRecent ==
    \/ ListRecentReports
    \/ EvaluateNextReport
    \/ AggregateStatistics

SpecAllRecent == InitAllRecent /\ [][NextAllRecent]_vars

----------------------------------------------------------------------------
(* The report evaluate_batch builds from its evaluations list, and the *)
(* summary evaluate_existing_report prints for it                      *)

\* overall_score values of validated evaluations, in hundredths
PoolScores == {290, 300, 350, 400, 449, 450}

\* strengths and weaknesses lists of validated evaluations
PoolLists ==
    {[strengths |-> <<"s1", "s1">>, weaknesses |-> <<>>],
     [strengths |-> <<"s2", "s3", "s4">>, weaknesses |-> <<"w1", "w2", "w1">>],
     [strengths |-> <<"s5", "s6">>, weaknesses |-> <<"w3", "w4", "w5">>]}

\* ArticleEvaluation objects evaluate_analysis may have returned
EvaluationPool ==
    {[overall_score |-> sc, strengths |-> l.strengths,
      weaknesses |-> l.weaknesses] : sc \in PoolScores, l \in PoolLists}

\* evaluate.py lines 107-116: the band printed for average_score
SummaryBand(average_score) ==
    IF average_score >= 450 THEN "EXCELLENT"
    ELSE IF average_score >= 400 THEN "VERY GOOD"
    ELSE IF average_score >= 350 THEN "GOOD"
    ELSE IF average_score >= 300 THEN "FAIR"
    ELSE "POOR"

InitFeedback ==
    /\ InitMain
    /\ InitAll
    /\ console = <<>>
    /\ reportFiles = <<>>
    /\ program = "feedback"
    /\ pc = "call"
    /\ evaluations \in SeqsUpTo(EvaluationPool, MaxBatch)
    /\ batchArticles = [i \in 1..Len(evaluations) |-> "A"]
    /\ batchAnalyses = [i \in 1..Len(evaluations) |->
                           [original_title |-> "A", importance_score |-> 8]]
    /\ idx = Len(evaluations) + 1
    /\ judgeCalls = Len(evaluations)
    /\ judged = batchAnalyses
    /\ failedResponse = NoResponse
    /\ batchExc = "none"
    /\ evalResult = <<>>
    /\ evalFiles = <<>>

\* evaluate_batch lines 144-154: the loop is over, the report is built and
\* returned
BuildEvaluationReport ==
    /\ program = "feedback"
    /\ pc = "call"
    /\ \E avg \in RoundedMeans(SumScores(evaluations), Len(evaluations)) :
           evalResult' = <<[EvaluationReport(batchArticles, evaluations)
                               EXCEPT !.average_score = avg]>>
    /\ pc' = "built"
    /\ UNCHANGED <<program, mainVars, allVars, reportFiles, console,
                   batchArticles, batchAnalyses, idx, evaluations, judgeCalls,
                   judged, failedResponse, batchExc, evalFiles>>

\* evaluate_existing_report lines 85-118 on the report returned: it is
\* saved and the summary is printed (the driver never evaluates an empty
\* list of findings)
PrintSummary ==
    /\ program = "feedback"
    /\ pc = "built"
    /\ evaluations # <<>>
    /\ evalFiles' = Append(evalFiles, evalResult[1])
    /\ console' = <<"EVALUATION SUMMARY",
                    SummaryBand(evalResult[1].average_score)>>
    /\ pc' = "done"
    /\ UNCHANGED <<program, mainVars, allVars, reportFiles, batchArticles,
                   batchAnalyses, idx, evaluations, judgeCalls, judged,
                   failedResponse, batchExc, evalResult>>

NextFeedback ==
    \/ BuildEvaluationReport
    \/ PrintSummary

SpecFeedback == InitFeedback /\ [][NextFeedback]_vars

----------------------------------------------------------------------------

Next ==
    \/ Menu
    \/ InitialRun
    \/ Register
    \/ RunPending
    \/ Sleep
    \/ KeyboardInterrupt
    \/ EvaluateExistingReport
    \/ CallEvaluateBatch
    \/ JudgeCall

Spec == Init /\ [][Next]_vars

----------------------------------------------------------------------------
(* Properties *)

StartMsg == "Starting news scouting task"

\* The state just after run_scouting_task returned from the start-up run
AfterRun == program = "main" /\ pc = "register"

\* The scheduler loop was entered
LoopEntered == program = "main" /\ pc \in {"loop", "stopped", "crashed"}

\* Both parse attempts of analyze_articles fail on text
BothAnalysisParsesFail(text) ==
    /\ ~JsonDecodes(text)
    /\ LET s == Find(text, "[")
           e == RFind(text, "]") + 1
       IN ~(s >= 0 /\ e > s /\ JsonDecodes(Slice(text, s, e)))

\* Both parse attempts of evaluate_analysis fail on text
BothJudgeParsesFail(text) ==
    /\ ~IsJudgeJson(text)
    /\ LET s == Find(text, "{")
           e == RFind(text, "}") + 1
       IN ~(s >= 0 /\ e > s /\ IsJudgeJson(Slice(text, s, e)))

\* evaluate_batch ended on a judge answer that fails both parse attempts
JudgeParseFailed ==
    /\ pc = "done"
    /\ judgeCalls > 0
    /\ batchExc # "none"
    /\ ~failedResponse.raised
    /\ BothJudgeParsesFail(failedResponse.content)

\* C1: once the scheduler loop is entered, every run of the due hourly job
\* has invoked run_scouting_task once more, with the rss_url and description
\* chosen at start-up (one invocation for the start-up run plus one per
\* hourly tick).
C1_EveryTickRerunsPipeline ==
    LoopEntered =>
        /\ Len(invocations) = 1 + jobRuns
        /\ \A i \in 1..Len(invocations) :
               invocations[i] =
                   [rss_url |-> rss_url, description |-> description]

\* C2: the scheduler loop is left by a keyboard interrupt only; no failure
\* inside a scheduled job ends it.
C2_OnlyInterruptEndsLoop ==
    (program = "main" /\ pc \in {"stopped", "crashed"})
        => exitCause = "KeyboardInterrupt"

\* C3: when the fetcher returns no article, generate_scout_report issues no
\* model call and returns no report (it prints the error and returns, and
\* run_scouting_task completes), and run_scouting_task prints a message and
\* writes no report file.
C3_EmptyFeedNoReport ==
    (AfterRun /\ articles = <<>>) =>
        /\ modelCalls = 0
        /\ report = <<>>
        /\ reportFiles = <<>>
        /\ console = <<StartMsg, "Error generating scout report",
                       "Error during scouting task">>

C3_Witness ==
    /\ AfterRun
    /\ entries = <<>>
    /\ articles = <<>>
    /\ Len(invocations) = 1
    /\ report = <<>>

\* C4: when the model's answer fails the direct parse and the "[".."]"
\* substring parse, analyze_articles returns an empty list without raising
\* and the run completes: a report with no findings and analyzed_articles
\* equal to the fetched count is written to a file.
C4_ParseFailureEmptyReport ==
    (/\ AfterRun
     /\ articles # <<>>
     /\ ~response.raised
     /\ BothAnalysisParsesFail(response.content)) =>
        /\ analysis.exc = "none"
        /\ analysis.results = <<>>
        /\ report = <<[analyzed_articles |-> Len(articles),
                       important_findings |-> <<>>]>>
        /\ reportFiles = <<[valid |-> TRUE,
                            analyzed_articles |-> Len(articles),
                            important_findings |-> <<>>]>>

C4_Witness ==
    /\ AfterRun
    /\ articles = <<"A", "B">>
    /\ response = [raised |-> FALSE, content |-> <<"p", "[", "A8">>]
    /\ Len(reportFiles) = 1
    /\ reportFiles[1].analyzed_articles = 2
    /\ reportFiles[1].important_findings = <<>>

\* C5 as stated: on an empty feed, on a total parse failure of a model
\* answer (analysis or evaluation path) and on a count mismatch, the driver
\* prints a message and writes no output file.
C5_NoOutputOnPipelineFailure ==
    /\ (AfterRun /\ articles = <<>>) =>
           (reportFiles = <<>> /\ Len(console) > 1)
    /\ (/\ AfterRun
        /\ articles # <<>>
        /\ ~response.raised
        /\ BothAnalysisParsesFail(response.content)) =>
           (reportFiles = <<>> /\ Len(console) > 1)
    /\ JudgeParseFailed =>
           /\ evalFiles = <<>>
           /\ program = "evaluate" => console = <<"Error during evaluation">>
    /\ (pc = "done" /\ Len(batchArticles) # Len(batchAnalyses)) =>
           /\ evalFiles = <<>>
           /\ program = "evaluate" => console = <<"Error during evaluation">>

\* C5 amended: on an empty feed, on a total parse failure of a judge answer
\* (evaluation path) and on a count mismatch the driver prints a message
\* and writes no output file; a total parse failure of the analysis answer
\* is not surfaced: the driver writes a Scout Report without findings.
C5_NoOutputExceptAnalysisParse ==
    /\ (AfterRun /\ articles = <<>>) =>
           (reportFiles = <<>> /\ Len(console) > 1)
    /\ (/\ AfterRun
        /\ articles # <<>>
        /\ ~response.raised
        /\ BothAnalysisParsesFail(response.content)) =>
           /\ Len(reportFiles) = 1
           /\ reportFiles[1].important_findings = <<>>
    /\ JudgeParseFailed =>
           /\ evalFiles = <<>>
           /\ program = "evaluate" => console = <<"Error during evaluation">>
    /\ (pc = "done" /\ Len(batchArticles) # Len(batchAnalyses)) =>
           /\ evalFiles = <<>>
           /\ program = "evaluate" => console = <<"Error during evaluation">>

C5_Witness ==
    /\ program = "evaluate"
    /\ JudgeParseFailed
    /\ failedResponse.content = <<"p", "{", "E42">>
    /\ console = <<"Error during evaluation">>
    /\ evalFiles = <<>>

\* C6: every Scout Report generate_scout_report returns, and every report
\* file main.py writes, holds only findings with importance_score in 5..10
\* whose original_title is the title of an article fetched in that run.
C6_FindingsImportantAndFetched ==
    /\ program = "main" =>
         \A n \in 1..Len(reportFiles) :
           \A i \in 1..Len(reportFiles[n].important_findings) :
             /\ reportFiles[n].important_findings[i].importance_score >= 5
             /\ reportFiles[n].important_findings[i].importance_score <= 10
    /\ (AfterRun /\ report # <<>>) =>
         /\ reportFiles = <<FileOf(report[1])>>
         /\ \A i \in 1..Len(report[1].important_findings) :
              /\ report[1].important_findings[i].importance_score >= 5
              /\ report[1].important_findings[i].importance_score <= 10
              /\ \E k \in 1..Len(articles) :
                   articles[k] = report[1].important_findings[i].original_title

C6_Witness ==
    /\ AfterRun
    /\ articles = <<"B", "A">>
    /\ response.content = <<"[", "A8", "B3", "]">>
    /\ report # <<>>
    /\ report[1].important_findings =
           <<[original_title |-> "A", importance_score |-> 8]>>

\* C7: every Scout Report has analyzed_articles equal to the number of
\* articles the fetcher returned in that run; matching objects scored 8 and
\* 3 on a 3-article feed give analyzed_articles = 3 and one finding.
C7_AnalyzedIsFetchedCount ==
    /\ (AfterRun /\ report # <<>>) =>
         /\ report[1].analyzed_articles = Len(articles)
         /\ Len(reportFiles) = 1
         /\ reportFiles[1].analyzed_articles = Len(articles)
    /\ (/\ AfterRun
        /\ Len(articles) = 3
        /\ \E k \in 1..3 : articles[k] = "A"
        /\ \E k \in 1..3 : articles[k] = "B"
        /\ response.content \in {<<"[", "A8", "B3", "]">>,
                                 <<"[", "B3", "A8", "]">>}) =>
         /\ report # <<>>
         /\ report[1].analyzed_articles = 3
         /\ Len(report[1].important_findings) = 1

C7_Witness ==
    /\ AfterRun
    /\ articles = <<"A", "B", "A">>
    /\ response.content = <<"[", "A8", "B3", "]">>
    /\ Len(reportFiles) = 1
    /\ reportFiles[1].analyzed_articles = 3
    /\ Len(reportFiles[1].important_findings) = 1

\* The answer parses (directly or by substring) to an array of objects
ParsedObjects(text) ==
    /\ ~BothAnalysisParsesFail(text)
    /\ ParseAnalysis(text).data.kind = "list"
    /\ \A i \in 1..Len(ParseAnalysis(text).data.items) :
           ParseAnalysis(text).data.items[i] \in Objs

TitleFetched(tok) ==
    \E k \in 1..Len(articles) : articles[k] = ObjDict(tok).original_title

\* The objects whose title is the title of a fetched article, in the order
\* of the model's array
MatchingObjects(text) ==
    LET m == SelectSeq(ParseAnalysis(text).data.items, TitleFetched)
    IN [i \in 1..Len(m) |-> ObjDict(m[i])]

ScoreInRange(tok) ==
    ObjDict(tok).importance_score >= 1 /\ ObjDict(tok).importance_score <= 10

\* C8 as stated: analyze_articles returns exactly the parsed objects whose
\* original_title is the title of an input article, in the order of the
\* model's array.
C8_ReturnsMatchingObjects ==
    (/\ AfterRun
     /\ articles # <<>>
     /\ ~response.raised
     /\ ParsedObjects(response.content)) =>
        /\ analysis.exc = "none"
        /\ analysis.results = MatchingObjects(response.content)

\* C8 amended: when every parsed object whose title matches an input
\* article has an importance_score in 1..10, analyze_articles returns
\* exactly the matching objects in the order of the model's array, the
\* others being dropped without an error; a matching object with a score
\* outside 1..10 makes analyze_articles raise a validation error.
C8_ReturnsMatchingValidObjects ==
    (/\ AfterRun
     /\ articles # <<>>
     /\ ~response.raised
     /\ ParsedObjects(response.content)) =>
        IF \A i \in 1..Len(ParseAnalysis(response.content).data.items) :
              TitleFetched(ParseAnalysis(response.content).data.items[i])
                => ScoreInRange(ParseAnalysis(response.content).data.items[i])
        THEN /\ analysis.exc = "none"
             /\ analysis.results = MatchingObjects(response.content)
        ELSE analysis.exc = "ValidationError"

C8_Witness ==
    /\ AfterRun
    /\ articles = <<"A">>
    /\ response.content = <<"[", "B3", "A8", "]">>
    /\ analysis.exc = "none"
    /\ analysis.results = <<[original_title |-> "A", importance_score |-> 8]>>

\* C9: evaluate_batch given lists of different lengths raises before any
\* judge call is issued and returns nothing; whenever evaluate_batch raises
\* inside evaluate_existing_report, no evaluation file is written.
C9_MismatchRaisesBeforeCalls ==
    /\ (program = "batch" /\ pc # "call"
        /\ Len(batchArticles) # Len(batchAnalyses)) =>
           /\ pc = "done"
           /\ batchExc = "ValueError: Number of articles must match"
           /\ judgeCalls = 0
           /\ judged = <<>>
           /\ evalResult = <<>>
           /\ evalFiles = <<>>
    /\ (program = "evaluate" /\ batchExc # "none") =>
           /\ pc = "done"
           /\ evalFiles = <<>>
           /\ console = <<"Error during evaluation">>

C9_Witness ==
    /\ program = "batch"
    /\ pc = "done"
    /\ Len(batchArticles) = 3
    /\ Len(batchAnalyses) = 2
    /\ judgeCalls = 0
    /\ batchExc = "ValueError: Number of articles must match"

\* C10: evaluate_batch issues one judge call per pair, in input order; when
\* the call for pair k fails both parse stages the batch is over: calls
\* were issued for pairs 1..k only, nothing is returned (the k-1
\* evaluations are lost) and no evaluation file is written.
C10_ParseFailureAbortsBatch ==
    /\ pc = "batch" =>
         /\ judgeCalls = idx - 1
         /\ Len(evaluations) = idx - 1
         /\ judged = SubSeq(batchAnalyses, 1, idx - 1)
    /\ (pc = "done" /\ evalResult # <<>>) =>
         /\ judgeCalls = Len(batchAnalyses)
         /\ judged = batchAnalyses
         /\ Len(evalResult[1].evaluations) = Len(batchAnalyses)
    /\ JudgeParseFailed =>
         /\ judgeCalls = idx
         /\ judged = SubSeq(batchAnalyses, 1, idx)
         /\ Len(evaluations) = idx - 1
         /\ evalResult = <<>>
         /\ evalFiles = <<>>
         /\ ~ENABLED JudgeCall

C10_Witness ==
    /\ program = "evaluate"
    /\ JudgeParseFailed
    /\ Len(batchAnalyses) = 3
    /\ idx = 2
    /\ judgeCalls = 2
    /\ Len(evaluations) = 1
    /\ failedResponse.content = <<"}", "E42", "{">>
    /\ evalFiles = <<>>

----------------------------------------------------------------------------
(* evaluate.py --all *)

\* The judge's answer parses, directly or by substring, to a valid
\* ArticleEvaluation
JudgeAnswerUsable(resp) ==
    /\ ~resp.raised
    /\ ~BothJudgeParsesFail(resp.content)
    /\ \E i \in 1..Len(resp.content) :
           /\ resp.content[i] \in KnownBodies
           /\ EvalDict(resp.content[i]).overall_score >= 100
           /\ EvalDict(resp.content[i]).overall_score <= 500

\* The report of visit v loads, has findings, and every judge answer is usable
VisitSucceeds(v) ==
    /\ reportFiles[v.file].valid
    /\ reportFiles[v.file].important_findings # <<>>
    /\ \A k \in 1..Len(v.answers) : JudgeAnswerUsable(v.answers[k])

VisitReturned(v) == v.result # <<>>

\* C11: evaluate_all_recent_reports walks the count most recent reports,
\* latest first, and calls evaluate_existing_report on every one of them
\* whatever happened to the earlier ones; a report that cannot be loaded or
\* evaluated contributes nothing, and the statistics are those of exactly
\* the reports whose evaluation succeeded.
C11_FailureAbortsOnlyThatReport ==
    (program = "all" /\ pc # "start") =>
        /\ Len(reports) = IF count < Len(reportFiles)
                          THEN count ELSE Len(reportFiles)
        /\ \A i, j \in 1..Len(reports) :
               i < j => mtimes[reports[i]] > mtimes[reports[j]]
        /\ \A p \in 1..Len(reportFiles) :
               (\A i \in 1..Len(reports) : reports[i] # p) =>
                   \A i \in 1..Len(reports) : mtimes[p] < mtimes[reports[i]]
        /\ Len(visited) <= Len(reports)
        /\ \A i \in 1..Len(visited) : visited[i].file = reports[i]
        /\ pc = "done" => Len(visited) = Len(reports)
        /\ \A i \in 1..Len(visited) :
               VisitReturned(visited[i]) <=> VisitSucceeds(visited[i])
        /\ LET ok == SelectSeq(visited, VisitSucceeds)
           IN /\ all_scores =
                    [i \in 1..Len(ok) |->
                        [filename |-> ok[i].file,
                         score |-> ok[i].result[1].average_score]]
              /\ (pc = "done" /\ ok = <<>>) => stats = <<>>
              /\ (pc = "done" /\ ok # <<>>) =>
                    /\ stats # <<>>
                    /\ stats[1].evaluated = Len(ok)
                    /\ stats[1].total = SumOfScores(all_scores)
                    /\ \A i \in 1..Len(ok) :
                          /\ stats[1].best.score
                                 >= ok[i].result[1].average_score
                          /\ stats[1].worst.score
                                 <= ok[i].result[1].average_score
                    /\ \E i \in 1..Len(ok) : stats[1].best.filename = ok[i].file
                    /\ \E i \in 1..Len(ok) : stats[1].worst.filename = ok[i].file

\* The latest report cannot be loaded, the judge's answer for the second
\* cannot be parsed, and the third is evaluated and alone makes the statistics
C11_Witness ==
    /\ program = "all"
    /\ pc = "done"
    /\ Len(visited) = 3
    /\ ~reportFiles[visited[1].file].valid
    /\ reportFiles[visited[2].file].valid
    /\ Len(visited[2].answers) = 1
    /\ visited[2].answers[1].content = <<"p">>
    /\ visited[2].result = <<>>
    /\ visited[3].result # <<>>
    /\ stats # <<>>
    /\ stats[1].evaluated = 1
    /\ stats[1].best.filename = visited[3].file

\* The average scores of the reports evaluated with success, latest first
ReturnedScores ==
    LET ok == SelectSeq(visited, VisitReturned)
    IN [i \in 1..Len(ok) |-> ok[i].result[1].average_score]

\* C17: the trend sets the mean of the two latest reports evaluated with
\* success against the mean of the two oldest ones; with fewer than two no
\* trend is printed, and with exactly two the windows are the same two
\* reports, so the trend is Stable whatever their scores.
C17_TrendOfTwoIsStable ==
    (program = "all" /\ pc = "done" /\ stats # <<>>) =>
        LET sc == ReturnedScores
            n  == Len(sc)
        IN /\ n < 2 => stats[1].trend = "none"
           /\ n >= 2 =>
                /\ (sc[1] + sc[2] > sc[n-1] + sc[n])
                       <=> stats[1].trend = "Improving"
                /\ (sc[1] + sc[2] < sc[n-1] + sc[n])
                       <=> stats[1].trend = "Declining"
                /\ (sc[1] + sc[2] = sc[n-1] + sc[n])
                       <=> stats[1].trend = "Stable"
           /\ n = 2 => stats[1].trend = "Stable"

\* Two reports evaluated, the latest better than the older one: Stable
C17_Witness ==
    /\ program = "all"
    /\ pc = "done"
    /\ ReturnedScores = <<420, 300>>
    /\ stats # <<>>
    /\ stats[1].trend = "Stable"

----------------------------------------------------------------------------
(* The Evaluation Report *)

\* evaluate_batch has returned its report
ReportBuilt == program = "feedback" /\ pc \in {"built", "done"}

\* Sum of the overall_score values of the evaluations
TotalScore ==
    LET sum[i \in 0..Len(evaluations)] ==
            IF i = 0 THEN 0 ELSE sum[i-1] + evaluations[i].overall_score
    IN sum[Len(evaluations)]

\* C12 as stated: average_score is the arithmetic mean of the
\* overall_score values, 0 for an empty batch.
C12_AverageIsMean ==
    ReportBuilt =>
        IF evaluations = <<>>
        THEN evalResult[1].average_score = 0
        ELSE evalResult[1].average_score * Len(evaluations) = TotalScore

\* C12 amended: average_score is the arithmetic mean rounded to two
\* decimals (it is within half a hundredth of the mean), 0 for an empty
\* batch.
C12_AverageIsRoundedMean ==
    ReportBuilt =>
        IF evaluations = <<>>
        THEN evalResult[1].average_score = 0
        ELSE LET d == evalResult[1].average_score * Len(evaluations)
                          - TotalScore
             IN /\ 2 * d <= Len(evaluations)
                /\ 2 * (0 - d) <= Len(evaluations)

\* Scores 4.49, 4.50, 4.50: the mean 4.4966... is reported as 4.50
C12_Witness ==
    /\ ReportBuilt
    /\ Len(evaluations) = 3
    /\ TotalScore = 1349
    /\ evalResult[1].average_score = 450

\* C13: the band named in overall_feedback is the one whose inclusive lower
\* bound the batch average reaches: excellent from 4.5, very good from 4.0,
\* good from 3.5, satisfactory from 3.0, needs improvement below; so exactly
\* 4.5 is excellent, exactly 3.0 satisfactory and 2.9 needs improvement.
C13_BandsHaveInclusiveLowerBounds ==
    ReportBuilt =>
        LET n    == Len(evaluations)
            t    == TotalScore
            perf == evalResult[1].overall_feedback.performance
        IN /\ perf \in {"excellent", "very good", "good", "satisfactory",
                        "needs improvement"}
           /\ n = 0 => perf = "needs improvement"
           /\ n > 0 =>
                /\ perf = "excellent" <=> t >= 450 * n
                /\ perf = "very good" <=> (t >= 400 * n /\ t < 450 * n)
                /\ perf = "good" <=> (t >= 350 * n /\ t < 400 * n)
                /\ perf = "satisfactory" <=> (t >= 300 * n /\ t < 350 * n)
                /\ perf = "needs improvement" <=> t < 300 * n
                /\ t = 450 * n => perf = "excellent"
                /\ t = 300 * n => perf = "satisfactory"
                /\ t = 290 * n => perf = "needs improvement"

\* Two evaluations scored 4.50: the average is exactly 4.5, excellent
C13_Witness ==
    /\ ReportBuilt
    /\ Len(evaluations) = 2
    /\ TotalScore = 900
    /\ evalResult[1].overall_feedback.performance = "excellent"

\* The distinct strings of seq in the order of their first occurrence
DistinctInOrder(seq) ==
    SelectSeq([i \in 1..Len(seq) |->
                  IF \E j \in 1..(i-1) : seq[j] = seq[i] THEN "" ELSE seq[i]],
              LAMBDA x : x # "")

FirstDistinct(seq, n) == Range(FirstN(DistinctInOrder(seq), n))

\* C14 as stated: overall_feedback lists the first 5 distinct strings of
\* the concatenated strengths lists (all of them when fewer than 5), and
\* likewise for weaknesses; with at least 5 distinct strings exactly 5 are
\* listed.
C14_ListsFirstFiveDistinct ==
    ReportBuilt =>
        LET all_strengths  == Concat(evaluations, "strengths")
            all_weaknesses == Concat(evaluations, "weaknesses")
            fb             == evalResult[1].overall_feedback
        IN /\ fb.strengths = FirstDistinct(all_strengths, 5)
           /\ fb.weaknesses = FirstDistinct(all_weaknesses, 5)
           /\ Cardinality(Range(all_strengths)) >= 5
                  => Cardinality(fb.strengths) = 5
           /\ Cardinality(Range(all_weaknesses)) >= 5
                  => Cardinality(fb.weaknesses) = 5

\* The five bands, best first, under the names of either printout
BandRank(name) ==
    CASE name \in {"excellent", "EXCELLENT"}    -> 1
      [] name \in {"very good", "VERY GOOD"}    -> 2
      [] name \in {"good", "GOOD"}              -> 3
      [] name \in {"satisfactory", "FAIR"}      -> 4
      [] name \in {"needs improvement", "POOR"} -> 5

\* C16 as stated: the band in overall_feedback and the band of the
\* driver's summary are the same band for every evaluated report.
C16_FeedbackAndSummaryAgree ==
    (program = "feedback" /\ pc = "done") =>
        BandRank(evalResult[1].overall_feedback.performance)
            = BandRank(console[2])

----------------------------------------------------------------------------
(* JSON recovery *)

\* The places <<i, j>> where text holds a well-formed array
ArraySpans(text) ==
    {sp \in (1..Len(text)) \X (1..Len(text)) :
        sp[1] <= sp[2] /\ IsJsonArray(SubSeq(text, sp[1], sp[2]))}

\* What analyze_articles gives for the answer J alone
AnalysisOf(J) == AnalyzeArticles(articles, [raised |-> FALSE, content |-> J])

\* The same findings are returned, or the same exception is raised
SameFindings(a, b) == a.exc = b.exc /\ a.results = b.results

\* Tokens before the array that hold no "[" and tokens after it that hold
\* no "]" (an object outside the array may hold either)
BracketFreeProse(text, sp) ==
    /\ \A k \in 1..(sp[1] - 1) : text[k] \in {"p", "]"}
    /\ \A k \in (sp[2] + 1)..Len(text) : text[k] \in {"p", "["}

\* C15 as stated: when the answer embeds exactly one well-formed array J,
\* analyze_articles yields what it yields for J alone.
C15_EmbeddedArraySameFindings ==
    (AfterRun /\ articles # <<>> /\ ~response.raised) =>
        \A sp \in ArraySpans(response.content) :
            ArraySpans(response.content) = {sp} =>
                SameFindings(analysis,
                             AnalysisOf(SubSeq(response.content, sp[1], sp[2])))

\* C15 amended: when the answer embeds exactly one well-formed array J,
\* with no "[" before it and no "]" after it, analyze_articles yields what
\* it yields for J alone.
C15_EmbeddedArrayInBracketFreeProse ==
    (AfterRun /\ articles # <<>> /\ ~response.raised) =>
        \A sp \in ArraySpans(response.content) :
            (/\ ArraySpans(response.content) = {sp}
             /\ BracketFreeProse(response.content, sp)) =>
                SameFindings(analysis,
                             AnalysisOf(SubSeq(response.content, sp[1], sp[2])))

\* The array follows a piece of prose and its finding is recovered
C15_Witness ==
    /\ AfterRun
    /\ articles = <<"A">>
    /\ response.content = <<"p", "[", "A8", "]">>
    /\ analysis.exc = "none"
    /\ analysis.results = <<[original_title |-> "A", importance_score |-> 8]>>
    /\ SameFindings(analysis, AnalysisOf(<<"[", "A8", "]">>))

====
